---------------------------- MODULE Spec2Model ----------------------------
(***************************************************************************)
(* A model of the field engine of jsonmodels (src/jsonmodels/fields.py,    *)
(* src/jsonmodels/validators.py): the per-instance store of a field, the   *)
(* parse -> validate -> store pipeline of __set__, the lazy default of     *)
(* __get__, the resolution of lazy type paths and the polymorphic choice   *)
(* of an embedded type.                                                    *)
(***************************************************************************)
EXTENDS Integers, Sequences, FiniteSets, TLC

VARIABLES
    field,      \* the field descriptor (its attributes), or NoField
    memory,     \* the field's store: instance -> stored value, or Absent
    last,       \* what the last operation was, what it did and how it ended
    pathIn,     \* _evaluate_path: the arguments (relative_path, base_module)
    pathOut,    \* _evaluate_path: the outcome
    embedIn,    \* _get_embed_type: the arguments (value, models)
    embedOut,   \* _get_embed_type: the outcome
    fieldTypes, \* a field's tuple of types (self.types, self.items_types)
    threads,    \* each thread's position in _finish_initialization
    resolution  \* the tuple as declared, and the get/set calls completed

vars ==
    <<field, memory, last, pathIn, pathOut, embedIn, embedOut,
      fieldTypes, threads, resolution>>

fieldVars == <<field, memory, last>>
pathVars == <<pathIn, pathOut>>
embedVars == <<embedIn, embedOut>>
lazyVars == <<fieldTypes, threads, resolution>>

(***************************************************************************)
(* Bounds of the model.                                                    *)
(***************************************************************************)
MaxPathLen == 5     \* longest lazy type path, in characters
MaxModels == 3      \* longest list of candidate models
NumInstances == 2   \* instances the field is set and read on
MaxTypes == 2       \* longest tuple of types of a field with lazy types
MaxCalls == 3       \* get/set calls made on a field with lazy types

(***************************************************************************)
(* Sequence helpers.                                                       *)
(***************************************************************************)
Last(s) == s[Len(s)]
Front(s) == SubSeq(s, 1, Len(s) - 1)
Range(s) == {s[i] : i \in 1..Len(s)}
Max2(a, b) == IF a >= b THEN a ELSE b
Min2(a, b) == IF a <= b THEN a ELSE b
SeqsUpTo(S, n) == UNION {[1..k -> S] : k \in 0..n}

(***************************************************************************)
(* Lazy type paths.  A path and a module name are Python strings, modelled *)
(* as sequences of characters; "." separates the segments.                 *)
(***************************************************************************)
Dot == "."
PathChars == {Dot, "a", "T"}
Paths == SeqsUpTo(PathChars, MaxPathLen) \ {<<>>}
BaseModules == { <<"p">>, <<"p", Dot, "q">>, <<"p", Dot, "q", Dot, "r">> }

\* str.lstrip('.')
RECURSIVE lstrip(_)
lstrip(s) == IF s # <<>> /\ Head(s) = Dot THEN lstrip(Tail(s)) ELSE s

\* str.split('.'): the segments between the dots, empty segments kept.
RECURSIVE split(_)
split(s) ==
    IF \A i \in 1..Len(s) : s[i] # Dot THEN <<s>>
    ELSE LET i == CHOOSE j \in 1..Len(s) :
                      s[j] = Dot /\ \A m \in 1..(j - 1) : s[m] # Dot
         IN <<SubSeq(s, 1, i - 1)>> \o split(SubSeq(s, i + 1, Len(s)))

\* '.'.join(segments)
RECURSIVE join(_)
join(segs) ==
    IF segs = <<>> THEN <<>>
    ELSE IF Len(segs) = 1 THEN segs[1]
    ELSE segs[1] \o <<Dot>> \o join(Tail(segs))

\* seq[:stop] with Python's reading of a stop that is negative or zero.
PySliceTo(s, stop) ==
    LET e == IF stop < 0 THEN Max2(Len(s) + stop, 0) ELSE Min2(stop, Len(s))
    IN SubSeq(s, 1, e)

ValueErrorPath == [err |-> "ValueError", modules |-> <<>>]

_get_modules(relative_path, base_module) ==
    LET canonical_path == lstrip(relative_path)
        canonical_modules == split(canonical_path)
        dots == Len(relative_path) - Len(canonical_path)
        parent_modules == split(base_module)
        parents_amount == Max2(0, dots - 1)
    IN IF relative_path = <<>> \/ Head(relative_path) # Dot
       THEN [err |-> "ok", modules |-> canonical_modules]
       ELSE IF parents_amount > Len(parent_modules)
       THEN ValueErrorPath
       ELSE [err |-> "ok",
             modules |-> PySliceTo(parent_modules, parents_amount * (-1))
                            \o canonical_modules]

_evaluate_path(relative_path, base_module) ==
    LET got == _get_modules(relative_path, base_module)
        type_name == Last(got.modules)
        module == join(Front(got.modules))
    IN IF got.err # "ok"
       THEN [err |-> got.err, module |-> <<>>, type_name |-> <<>>]
       ELSE [err |-> "ok",
             module |-> IF module = <<>> THEN base_module ELSE module,
             type_name |-> type_name]

(***************************************************************************)
(* Lazy types.  An entry of a field's tuple of types is a _LazyType        *)
(* holding a path, or a type, known by its module and its name.  An owner  *)
(* is a model class, known by its name and its __module__.                 *)
(***************************************************************************)
LazyType(path) == [lazy |-> TRUE, path |-> path]
Type(module, type_name) ==
    [lazy |-> FALSE, module |-> module, type_name |-> type_name]

\* The modules that can be imported, and the type names each of them has.
Modules == {<<"p">>, <<"p", Dot, "q">>}
TypeNames == {<<"T">>}

_import(module_name, type_name) ==
    IF module_name \notin Modules THEN [err |-> "ImportError", val |-> <<>>]
    ELSE IF type_name \notin TypeNames
    THEN [err |-> "ValueError", val |-> <<>>]
    ELSE [err |-> "ok", val |-> Type(module_name, type_name)]

\* _LazyType.evaluate(base_cls)
evaluate(self, base_cls) ==
    LET Import(at) ==
            IF at.err # "ok" THEN [err |-> at.err, val |-> <<>>]
            ELSE _import(at.module, at.type_name)
    IN Import(_evaluate_path(self.path, base_cls.module))

(***************************************************************************)
(* Polymorphic resolution.  A model type is known by its class name, by    *)
(* whether it exposes iterate_with_name, and by the (attr, name) pairs its *)
(* registry yields; name "" stands for a field with no name override.      *)
(***************************************************************************)
NoName == ""
TypeA == [cls |-> "TypeA", registry |-> TRUE,
          fields |-> {<<"a", NoName>>, <<"b", NoName>>}]
TypeB == [cls |-> "TypeB", registry |-> TRUE,
          fields |-> {<<"b", NoName>>, <<"c", "see">>}]
TypeC == [cls |-> "TypeC", registry |-> TRUE,
          fields |-> {<<"a", NoName>>, <<"b", NoName>>, <<"c", NoName>>}]
Plain == [cls |-> "object", registry |-> FALSE, fields |-> {}]
ModelTypes == {TypeA, TypeB, TypeC, Plain}
PayloadKeys == {"a", "b", "c", "see"}

\* {name or attr for attr, name, field in model.iterate_with_name()}
WireNames(model) ==
    {IF f[2] # NoName THEN f[2] ELSE f[1] : f \in model.fields}

\* A resolution that takes the first matching model when several match.
EmbedTypeFirstMatch(value, models) ==
    IF Len(models) > 1
    THEN LET matching ==
                 {i \in 1..Len(models) :
                     models[i].registry /\ value \subseteq WireNames(models[i])}
         IN IF matching = {}
            THEN [err |-> "AmbiguousTypeError", models |-> models,
                  type |-> Plain]
            ELSE [err |-> "ok", models |-> <<>>,
                  type |-> models[CHOOSE i \in matching :
                                     \A j \in matching : i <= j]]
    ELSE [err |-> "ok", models |-> <<>>, type |-> models[1]]

_get_embed_type(value, models) ==
    IF Len(models) > 1
    THEN LET model_fields == {m \in Range(models) : m.registry}
             matching_models ==
                 {m \in model_fields : value \subseteq WireNames(m)}
         IN IF Cardinality(matching_models) # 1
            THEN [err |-> "AmbiguousTypeError", models |-> models,
                  type |-> Plain]
            ELSE [err |-> "ok", models |-> <<>>,
                  type |-> CHOOSE m \in matching_models : TRUE]
    ELSE IF Len(models) = 0
    THEN [err |-> "IndexError", models |-> <<>>, type |-> Plain]
    ELSE [err |-> "ok", models |-> <<>>, type |-> models[1]]

(***************************************************************************)
(* Python values.  Every value is a record tagged with its class; a string *)
(* is a sequence of characters, a dict is known by its keys in insertion   *)
(* order, a model instance by its class and the keyword arguments it was   *)
(* built from.                                                             *)
(***************************************************************************)
None == [t |-> "NoneType"]
NotSet == [t |-> "NotSet"]
Absent == [t |-> "<absent>"]
IntV(n) == [t |-> "int", n |-> n]
BoolV(b) == [t |-> "bool", b |-> b]
StrV(s) == [t |-> "str", s |-> s]
ListV(xs) == [t |-> "list", xs |-> xs]
TupleV(xs) == [t |-> "tuple", xs |-> xs]
DictV(ks) == [t |-> "dict", ks |-> ks]
Obj == [t |-> "object"]
Instance(cls, kw) == [t |-> "model", cls |-> cls, kw |-> kw]

\* ModelCollection(field): the empty list subclass a list field defaults to.
ModelCollection == [t |-> "ModelCollection", xs |-> <<>>]

\* The class of a value and the subclass relation among the classes used.
ClassOf(v) == IF v.t = "model" THEN v.cls ELSE v.t
IsSubclass(c, d) ==
    \/ c = d
    \/ d = "object"
    \/ c = "bool" /\ d = "int"
    \/ c = "ModelCollection" /\ d = "list"
    \/ c = "datetime" /\ d = "date"

\* isinstance(value, types), types a tuple of types.
isinstance(value, types) ==
    \E i \in 1..Len(types) : IsSubclass(ClassOf(value), types[i].cls)

PyType(c) == [cls |-> c, registry |-> FALSE, fields |-> {}]
IsSequence(v) == v.t \in {"list", "tuple", "ModelCollection"}

\* bool(value): Python's truth of a value.
Truthy(v) ==
    CASE v.t = "NoneType" -> FALSE
      [] v.t = "int" -> v.n # 0
      [] v.t = "bool" -> v.b
      [] v.t = "str" -> v.s # <<>>
      [] v.t \in {"list", "tuple", "ModelCollection"} -> v.xs # <<>>
      [] v.t = "dict" -> v.ks # <<>>
      [] OTHER -> TRUE

\* The number a numeric value stands for (True is 1, False is 0).
IsNumber(v) == v.t \in {"int", "bool"}
NumberOf(v) == IF v.t = "bool" THEN (IF v.b THEN 1 ELSE 0) ELSE v.n

\* a == b in Python: numbers compare by value, sequences item by item.
RECURSIVE PyEq(_, _)
PyEq(a, b) ==
    IF IsNumber(a) /\ IsNumber(b) THEN NumberOf(a) = NumberOf(b)
    ELSE IF a.t \in {"list", "ModelCollection"}
            /\ b.t \in {"list", "ModelCollection"}
    THEN /\ Len(a.xs) = Len(b.xs)
         /\ \A i \in 1..Len(a.xs) : PyEq(a.xs[i], b.xs[i])
    ELSE a = b

\* A dict known by its items: the keys, Python values in insertion order,
\* and the value under each key.
MapV(ks, vs) == [t |-> "dict", ks |-> ks, vs |-> vs]

\* d[k] = v: an equal key keeps its place and gets the value, a new key is
\* appended.
DictPut(d, k, v) ==
    IF \E i \in 1..Len(d.ks) : PyEq(d.ks[i], k)
    THEN MapV(d.ks, [i \in 1..Len(d.ks) |->
                        IF PyEq(d.ks[i], k) THEN v ELSE d.vs[i]])
    ELSE MapV(Append(d.ks, k), Append(d.vs, v))

\* dict(items), the items given as their keys and their values.
RECURSIVE PyDict(_, _)
PyDict(ks, vs) ==
    IF ks = <<>> THEN MapV(<<>>, <<>>)
    ELSE DictPut(PyDict(Front(ks), Front(vs)), Last(ks), Last(vs))

\* The items a for-loop over the value visits, or no iteration at all.
Iterate(v) ==
    CASE v.t \in {"list", "tuple", "ModelCollection"} ->
            [ok |-> TRUE, xs |-> v.xs]
      [] v.t = "str" ->
            [ok |-> TRUE, xs |-> [i \in 1..Len(v.s) |-> StrV(<<v.s[i]>>)]]
      [] v.t = "dict" ->
            [ok |-> TRUE, xs |-> [i \in 1..Len(v.ks) |-> StrV(<<v.ks[i]>>)]]
      [] OTHER -> [ok |-> FALSE, xs |-> <<>>]

\* len(value), or no len at all.
HasLen(v) == v.t \in {"list", "tuple", "ModelCollection", "str", "dict"}
LenOf(v) ==
    CASE v.t = "str" -> Len(v.s)
      [] v.t = "dict" -> Len(v.ks)
      [] OTHER -> Len(v.xs)

(***************************************************************************)
(* int(value) as IntField.parse_value calls it: an int is kept, a bool is  *)
(* 0 or 1, a string is read as an optionally signed decimal numeral and    *)
(* raises ValueError otherwise, any other value raises TypeError.          *)
(***************************************************************************)
Digits == <<"0", "1", "2", "3", "4", "5", "6", "7", "8", "9">>
IsDigit(c) == \E d \in 1..10 : Digits[d] = c
DigitValue(c) == (CHOOSE d \in 1..10 : Digits[d] = c) - 1

RECURSIVE Decimal(_)
Decimal(s) ==
    IF s = <<>> THEN 0 ELSE 10 * Decimal(Front(s)) + DigitValue(Last(s))

IsNumeral(s) == s # <<>> /\ \A i \in 1..Len(s) : IsDigit(s[i])

Ret(e, v) == [err |-> e, val |-> v]

PyInt(v) ==
    CASE v.t = "int" -> Ret("ok", v)
      [] v.t = "bool" -> Ret("ok", IntV(NumberOf(v)))
      [] v.t = "str" ->
            IF IsNumeral(v.s) THEN Ret("ok", IntV(Decimal(v.s)))
            ELSE IF v.s # <<>> /\ Head(v.s) = "-" /\ IsNumeral(Tail(v.s))
            THEN Ret("ok", IntV(0 - Decimal(Tail(v.s))))
            ELSE IF v.s # <<>> /\ Head(v.s) = "+" /\ IsNumeral(Tail(v.s))
            THEN Ret("ok", IntV(Decimal(Tail(v.s))))
            ELSE Ret("ValueError", None)
      [] OTHER -> Ret("TypeError", None)

\* type_(**kw): what calling a type with the keyword arguments kw gives.
PyCall(type, kw) ==
    IF type.registry THEN Ret("ok", Instance(type.cls, kw))
    ELSE IF kw # <<>> THEN Ret("TypeError", None)
    ELSE CASE type.cls = "int" -> Ret("ok", IntV(0))
           [] type.cls = "str" -> Ret("ok", StrV(<<>>))
           [] type.cls = "bool" -> Ret("ok", BoolV(FALSE))
           [] OTHER -> Ret("ok", Obj)

(***************************************************************************)
(* Validators (validators.py, and the two always-raising validators of     *)
(* tests/test_schema.py).  Each is a record; Outcome is what calling it    *)
(* does: "ok" or the error it raises.                                      *)
(***************************************************************************)
Min(m, excl) == [v |-> "Min", bound |-> m, exclusive |-> excl]
Length(lo, hi) == [v |-> "Length", lo |-> lo, hi |-> hi]
ClassBasedValidator == [v |-> "ClassBasedValidator"]
function_validator == [v |-> "function_validator"]
\* Two validators whose validate raises AttributeError from inside: an
\* object with no __call__, and one whose __call__ accepts every value.
BrokenValidator == [v |-> "BrokenValidator"]
BrokenCallable == [v |-> "BrokenCallable"]
NoBound == -1

MinValidate(vd, value) ==
    IF ~IsNumber(value) THEN "TypeError"
    ELSE IF NumberOf(value) < vd.bound
            \/ (vd.exclusive /\ NumberOf(value) = vd.bound)
    THEN "MinValidationError"
    ELSE "ok"

LengthValidate(vd, value) ==
    IF ~HasLen(value) THEN "TypeError"
    ELSE IF vd.lo # NoBound /\ LenOf(value) < vd.lo THEN "MinLengthError"
    ELSE IF vd.hi # NoBound /\ LenOf(value) > vd.hi THEN "MaxLengthError"
    ELSE "ok"

\* validator.validate(value): what it raises; a function has no validate
\* attribute, which raises AttributeError as well.
ValidateMethod(vd, value) ==
    CASE vd.v = "Min" -> MinValidate(vd, value)
      [] vd.v = "Length" -> LengthValidate(vd, value)
      [] vd.v = "ClassBasedValidator" -> "RuntimeError"
      [] vd.v = "function_validator" -> "AttributeError"
      [] vd.v = "BrokenValidator" -> "AttributeError"
      [] vd.v = "BrokenCallable" -> "AttributeError"

\* validator(value): what it raises; calling an object that is not callable
\* raises TypeError.
CallObject(vd, value) ==
    CASE vd.v = "function_validator" -> "RuntimeError"
      [] vd.v = "BrokenCallable" -> "ok"
      [] OTHER -> "TypeError"

\* A call of a validator that lets every error of validate through.
CallValidatorStrict(vd, value) ==
    IF vd.v = "function_validator" THEN CallObject(vd, value)
    ELSE ValidateMethod(vd, value)

\* try: validator.validate(value) / except AttributeError: validator(value)
CallValidator(vd, value) ==
    LET Tried(e) == IF e = "AttributeError" THEN CallObject(vd, value) ELSE e
    IN Tried(ValidateMethod(vd, value))

(***************************************************************************)
(* BaseField.validate and the checks it is made of.  A check yields        *)
(* [err, calls]: the error it raised ("ok" for none) and the checks and    *)
(* validators that ran, in order.                                          *)
(***************************************************************************)
NoTypes == <<PyType("<None>")>>
Done(e, calls) == [err |-> e, calls |-> calls]
VName(i) == <<"validators[0]", "validators[1]", "validators[2]">>[i]

_check_types(f) == IF f.types = NoTypes THEN "ValueError" ELSE "ok"

_validate_against_types(f, value) ==
    IF value # None /\ ~isinstance(value, f.types)
    THEN "BadTypeError" ELSE "ok"

_check_against_required(f, value) ==
    IF value = None /\ f.required THEN "RequiredFieldError" ELSE "ok"

\* for validator in validators: ... from the i-th validator on.
RECURSIVE RunValidators(_, _, _)
RunValidators(validators, value, i) ==
    IF i > Len(validators) THEN Done("ok", <<>>)
    ELSE LET Then(rest) == Done(rest.err, <<VName(i)>> \o rest.calls)
             Called(e) ==
                 IF e # "ok" THEN Done(e, <<VName(i)>>)
                 ELSE Then(RunValidators(validators, value, i + 1))
         IN Called(CallValidator(validators[i], value))

\* Custom validation that runs the validators on null even when nullable.
ValidatorsIgnoreNullable(f, value) == RunValidators(f.validators, value, 1)

_validate_with_custom_validators(f, value) ==
    IF value = None /\ f.nullable THEN Done("ok", <<>>)
    ELSE RunValidators(f.validators, value, 1)

\* A validate that runs the validators before the required-ness check.
ValidatorsBeforeRequired(f, value) ==
    LET c1 == <<"_check_types">>
        c2 == c1 \o <<"_validate_against_types">>
        Custom(custom) ==
            IF custom.err # "ok" THEN Done(custom.err, c2 \o custom.calls)
            ELSE Done(_check_against_required(f, value),
                      c2 \o custom.calls \o <<"_check_against_required">>)
    IN IF _check_types(f) # "ok" THEN Done(_check_types(f), c1)
       ELSE IF _validate_against_types(f, value) # "ok"
       THEN Done(_validate_against_types(f, value), c2)
       ELSE Custom(_validate_with_custom_validators(f, value))

BaseValidate(f, value) ==
    LET c1 == <<"_check_types">>
        c2 == c1 \o <<"_validate_against_types">>
        c3 == c2 \o <<"_check_against_required">>
        Custom(custom) == Done(custom.err, c3 \o custom.calls)
    IN IF _check_types(f) # "ok" THEN Done(_check_types(f), c1)
       ELSE IF _validate_against_types(f, value) # "ok"
       THEN Done(_validate_against_types(f, value), c2)
       ELSE IF _check_against_required(f, value) # "ok"
       THEN Done(_check_against_required(f, value), c3)
       ELSE Custom(_validate_with_custom_validators(f, value))

(***************************************************************************)
(* Field descriptors.  A field is a record of its attributes: kind (the    *)
(* class), types, required, nullable, validators, default (NotSet for no   *)
(* default), and for the list fields items_types, item_validators and      *)
(* inner (the wrapped field of a DerivedListField).                        *)
(***************************************************************************)
NoField == [kind |-> "none"]
ListKinds == {"ListField", "DerivedListField"}

\* The class attribute `types` of each field class.
TypesOf(kind) ==
    CASE kind = "BaseField" -> NoTypes
      [] kind = "StringField" -> <<PyType("str")>>
      [] kind = "IntField" -> <<PyType("int")>>
      [] kind = "BoolField" -> <<PyType("bool")>>
      [] kind \in ListKinds -> <<PyType("list"), PyType("tuple")>>
      [] kind = "MapField" -> <<PyType("dict")>>
      [] kind = "FloatField" -> <<PyType("float"), PyType("int")>>
      [] kind = "TimeField" -> <<PyType("time")>>
      [] kind = "DateField" -> <<PyType("date")>>
      [] kind = "DateTimeField" -> <<PyType("datetime")>>

\* The arguments of a declaration: the keyword arguments of BaseField, and
\* for the list fields items_types, item_validators and the wrapped field.
Args(kind, required, nullable, validators, default, shape) ==
    [kind |-> kind, required |-> required, nullable |-> nullable,
     validators |-> validators, default |-> default,
     items_types |-> shape.items_types,
     item_validators |-> shape.item_validators, inner |-> shape.inner]
NoShape == [items_types |-> <<>>, item_validators |-> <<>>, inner |-> NoField]

\* The attributes __init__ assigns from the arguments a, before the default
\* is validated.
Attributes(a) ==
    [kind |-> a.kind, types |-> TypesOf(a.kind), required |-> a.required,
     nullable |-> a.nullable, validators |-> a.validators,
     default |-> a.default, items_types |-> a.items_types,
     item_validators |-> a.item_validators, inner |-> a.inner]

has_default(f) == f.default # NotSet

\* A get_default_value that ignores the configured default.
DefaultAlwaysNone(f) == None

BaseGetDefaultValue(f) == IF has_default(f) THEN f.default ELSE None

\* A MapField default that is an empty mapping whether required or not.
MapDefaultAlwaysEmpty(f) ==
    IF BaseGetDefaultValue(f) = None THEN MapV(<<>>, <<>>)
    ELSE BaseGetDefaultValue(f)

\* MapField.get_default_value
MapGetDefaultValue(f) ==
    IF BaseGetDefaultValue(f) = None /\ f.required THEN MapV(<<>>, <<>>)
    ELSE BaseGetDefaultValue(f)

get_default_value(f) ==
    IF f.kind = "MapField" THEN MapGetDefaultValue(f)
    ELSE IF f.kind \in ListKinds /\ BaseGetDefaultValue(f) = None
    THEN ModelCollection
    ELSE BaseGetDefaultValue(f)

(***************************************************************************)
(* parse_value of each field class: [err, val].                            *)
(***************************************************************************)
IntFieldParse(value) ==
    IF value = None THEN Ret("ok", None)
    ELSE LET Converted(r) ==
                 IF r.err = "ValueError" THEN Ret("BadTypeError", None)
                 ELSE r
         IN Converted(PyInt(value))

BoolFieldParse(value) ==
    IF value = None THEN Ret("ok", None)
    ELSE Ret("ok", BoolV(Truthy(value)))

(***************************************************************************)
(* Dates and times.  A date is (year, month, day), a time is (hour,        *)
(* minute, second), a datetime is a date and a time; times are naive and   *)
(* hold whole seconds.  Formatting writes the characters of the string,    *)
(* dateutil's parse reads them back.                                       *)
(***************************************************************************)
FloatV(x) == [t |-> "float", x |-> x]
DateV(y, m, d) == [t |-> "date", y |-> y, m |-> m, d |-> d]
TimeV(h, mi, sec) == [t |-> "time", h |-> h, mi |-> mi, sec |-> sec]
DateTimeV(date, time) == [t |-> "datetime", y |-> date.y, m |-> date.m,
                          d |-> date.d, h |-> time.h, mi |-> time.mi,
                          sec |-> time.sec]

\* %02d and %04d
Pad2(n) == <<Digits[(n \div 10) + 1], Digits[(n % 10) + 1]>>
Pad4(n) == Pad2(n \div 100) \o Pad2(n % 100)

\* '%Y-%m-%d' and '%H:%M:%S' of the fields of a value.
FormatDate(v) == Pad4(v.y) \o <<"-">> \o Pad2(v.m) \o <<"-">> \o Pad2(v.d)
FormatTime(v) == Pad2(v.h) \o <<":">> \o Pad2(v.mi) \o <<":">> \o Pad2(v.sec)

\* value.isoformat()
isoformat(value) ==
    CASE value.t = "date" -> Ret("ok", StrV(FormatDate(value)))
      [] value.t = "time" -> Ret("ok", StrV(FormatTime(value)))
      [] value.t = "datetime" ->
            Ret("ok", StrV(FormatDate(value) \o <<"T">> \o FormatTime(value)))
      [] OTHER -> Ret("AttributeError", None)

\* value.strftime('%Y-%m-%d'); a time formats the date 1900-01-01.
strftime(value) ==
    CASE value.t \in {"date", "datetime"} ->
            Ret("ok", StrV(FormatDate(value)))
      [] value.t = "time" -> Ret("ok", StrV(FormatDate(DateV(1900, 1, 1))))
      [] OTHER -> Ret("AttributeError", None)

\* The date parse() fills in for a string that names no date.
Today == DateV(2024, 1, 1)
Midnight == TimeV(0, 0, 0)

IsDateString(s) ==
    /\ Len(s) = 10 /\ s[5] = "-" /\ s[8] = "-"
    /\ IsNumeral(SubSeq(s, 1, 4)) /\ IsNumeral(SubSeq(s, 6, 7))
    /\ IsNumeral(SubSeq(s, 9, 10))
IsTimeString(s) ==
    /\ Len(s) = 8 /\ s[3] = ":" /\ s[6] = ":"
    /\ IsNumeral(SubSeq(s, 1, 2)) /\ IsNumeral(SubSeq(s, 4, 5))
    /\ IsNumeral(SubSeq(s, 7, 8))
ReadDate(s) ==
    DateV(Decimal(SubSeq(s, 1, 4)), Decimal(SubSeq(s, 6, 7)),
          Decimal(SubSeq(s, 9, 10)))
ReadTime(s) ==
    TimeV(Decimal(SubSeq(s, 1, 2)), Decimal(SubSeq(s, 4, 5)),
          Decimal(SubSeq(s, 7, 8)))

\* dateutil.parser.parse(value): the datetime a string names, on the
\* strings the formats above write.
parse(value) ==
    IF value.t # "str" THEN Ret("TypeError", None)
    ELSE IF IsDateString(value.s)
    THEN Ret("ok", DateTimeV(ReadDate(value.s), Midnight))
    ELSE IF IsTimeString(value.s)
    THEN Ret("ok", DateTimeV(Today, ReadTime(value.s)))
    ELSE IF Len(value.s) = 19 /\ value.s[11] = "T"
            /\ IsDateString(SubSeq(value.s, 1, 10))
            /\ IsTimeString(SubSeq(value.s, 12, 19))
    THEN Ret("ok", DateTimeV(ReadDate(SubSeq(value.s, 1, 10)),
                             ReadTime(SubSeq(value.s, 12, 19))))
    ELSE Ret("ParserError", None)

\* datetime.date() and datetime.timetz()
DateOf(v) == DateV(v.y, v.m, v.d)
TimeOf(v) == TimeV(v.h, v.mi, v.sec)

TimeFieldParse(value) ==
    LET Parsed(r) ==
            IF r.err # "ok" THEN r ELSE Ret("ok", TimeOf(r.val))
    IN IF value = None THEN Ret("ok", None)
       ELSE IF isinstance(value, <<PyType("time")>>) THEN Ret("ok", value)
       ELSE Parsed(parse(value))

DateFieldParse(value) ==
    LET Parsed(r) ==
            IF r.err # "ok" THEN r ELSE Ret("ok", DateOf(r.val))
    IN IF value = None THEN Ret("ok", None)
       ELSE IF isinstance(value, <<PyType("date")>>) THEN Ret("ok", value)
       ELSE Parsed(parse(value))

DateTimeFieldParse(value) ==
    IF isinstance(value, <<PyType("datetime")>>) THEN Ret("ok", value)
    ELSE IF Truthy(value) THEN parse(value)
    ELSE Ret("ok", None)

\* to_struct of the scalar fields, none of them given a str_format.
to_struct(f, value) ==
    CASE f.kind = "TimeField" -> isoformat(value)
      [] f.kind = "DateField" -> strftime(value)
      [] f.kind = "DateTimeField" -> isoformat(value)
      [] OTHER -> Ret("ok", value)

\* parse_value of the fields that hold no other field or type.
ScalarParse(f, value) ==
    CASE f.kind = "IntField" -> IntFieldParse(value)
      [] f.kind = "BoolField" -> BoolFieldParse(value)
      [] f.kind = "TimeField" -> TimeFieldParse(value)
      [] f.kind = "DateField" -> DateFieldParse(value)
      [] f.kind = "DateTimeField" -> DateTimeFieldParse(value)
      [] OTHER -> Ret("ok", value)

_cast_value(f, value) ==
    IF isinstance(value, f.items_types) THEN Ret("ok", value)
    ELSE IF value.t = "dict"
    THEN LET Build(e) ==
                 IF e.err # "ok" THEN Ret(e.err, None)
                 ELSE PyCall(e.type, value.ks)
         IN Build(_get_embed_type(Range(value.ks), f.items_types))
    ELSE Ret("BadTypeError(is_list)", None)

\* [f(x) for x in xs], stopped by the first x on which f raises.
RECURSIVE CastItems(_, _)
CastItems(f, xs) ==
    IF xs = <<>> THEN Ret("ok", <<>>)
    ELSE LET Both(h, t) ==
                 IF h.err # "ok" THEN Ret(h.err, <<>>)
                 ELSE IF t.err # "ok" THEN t
                 ELSE Ret("ok", <<h.val>> \o t.val)
         IN Both(_cast_value(f, Head(xs)), CastItems(f, Tail(xs)))

\* A ListField.parse_value that answers a null or empty input with an empty
\* collection, whatever default was configured.
ParseEmptyAsEmpty(f, values) ==
    LET Cast(r) ==
            IF r.err # "ok" THEN Ret(r.err, None) ELSE Ret("ok", ListV(r.val))
    IN IF ~Truthy(values) THEN Ret("ok", ModelCollection)
       ELSE IF ~isinstance(values, <<PyType("list")>>)
       THEN Ret("ok", values)
       ELSE Cast(CastItems(f, values.xs))

ListFieldParse(f, values) ==
    LET result == get_default_value(f)
        Cast(r) ==
            IF r.err # "ok" THEN Ret(r.err, None) ELSE Ret("ok", ListV(r.val))
    IN IF ~Truthy(values) THEN Ret("ok", result)
       ELSE IF ~isinstance(values, <<PyType("list")>>)
       THEN Ret("ok", values)
       ELSE Cast(CastItems(f, values.xs))

RECURSIVE InnerParseItems(_, _)
InnerParseItems(inner, xs) ==
    IF xs = <<>> THEN Ret("ok", <<>>)
    ELSE LET Both(h, t) ==
                 IF h.err # "ok" THEN Ret(h.err, <<>>)
                 ELSE IF t.err # "ok" THEN t
                 ELSE Ret("ok", <<h.val>> \o t.val)
         IN Both(ScalarParse(inner, Head(xs)),
                 InnerParseItems(inner, Tail(xs)))

DerivedListFieldParse(f, values) ==
    LET Parsed(it, r) ==
            IF ~it.ok \/ r.err = "TypeError"
            THEN Ret("BadTypeError(is_list)", None)
            ELSE IF r.err # "ok" THEN Ret(r.err, None)
            ELSE Ret("ok", ListV(r.val))
    IN Parsed(Iterate(values), InnerParseItems(f.inner, Iterate(values).xs))

\* EmbeddedField.parse_value, types being the field's candidate models.
EmbeddedFieldParse(types, value) ==
    IF value.t # "dict" THEN Ret("ok", value)
    ELSE LET Build(e) ==
                 IF e.err # "ok" THEN Ret(e.err, None)
                 ELSE PyCall(e.type, value.ks)
         IN Build(_get_embed_type(Range(value.ks), types))

\* [(key_field.parse_value(k), value_field.parse_value(v)) for k, v in
\* items], stopped by the first key or value on which parse_value raises.
RECURSIVE MapParseItems(_, _, _)
MapParseItems(f, ks, vs) ==
    IF ks = <<>> THEN [err |-> "ok", ks |-> <<>>, vs |-> <<>>]
    ELSE LET Item(k, v, t) ==
                 IF k.err # "ok" THEN [err |-> k.err, ks |-> <<>>, vs |-> <<>>]
                 ELSE IF v.err # "ok"
                 THEN [err |-> v.err, ks |-> <<>>, vs |-> <<>>]
                 ELSE IF t.err # "ok" THEN t
                 ELSE [err |-> "ok", ks |-> <<k.val>> \o t.ks,
                       vs |-> <<v.val>> \o t.vs]
         IN Item(ScalarParse(f.key_field, Head(ks)),
                 ScalarParse(f.value_field, Head(vs)),
                 MapParseItems(f, Tail(ks), Tail(vs)))

\* MapField.parse_value
MapFieldParse(f, values) ==
    LET Built(r) ==
            IF r.err # "ok" THEN Ret(r.err, None)
            ELSE Ret("ok", PyDict(r.ks, r.vs))
    IN IF values = None THEN Ret("ok", None)
       ELSE IF values.t # "dict" THEN Ret("AttributeError", None)
       ELSE Built(MapParseItems(f, values.ks, values.vs))

parse_value(f, value) ==
    CASE f.kind = "ListField" -> ListFieldParse(f, value)
      [] f.kind = "MapField" -> MapFieldParse(f, value)
      [] f.kind = "DerivedListField" -> DerivedListFieldParse(f, value)
      [] OTHER -> ScalarParse(f, value)

(***************************************************************************)
(* validate of the list fields: BaseField.validate on the whole value,     *)
(* then validate_single_value on every item.                               *)
(***************************************************************************)
validate_single_value(f, item) ==
    IF f.kind = "DerivedListField" THEN BaseValidate(f.inner, item).err
    ELSE LET Validated(r) ==
                 IF r.err # "ok" THEN r.err
                 ELSE IF Len(f.items_types) = 0 THEN "ok"
                 ELSE IF ~isinstance(item, f.items_types)
                 THEN "BadTypeError(is_list)"
                 ELSE "ok"
         IN Validated(RunValidators(f.item_validators, item, 1))

RECURSIVE ValidateItems(_, _)
ValidateItems(f, xs) ==
    IF xs = <<>> THEN Done("ok", <<>>)
    ELSE LET Then(rest) ==
                 Done(rest.err, <<"validate_single_value">> \o rest.calls)
             One(e) ==
                 IF e # "ok" THEN Done(e, <<"validate_single_value">>)
                 ELSE Then(ValidateItems(f, Tail(xs)))
         IN One(validate_single_value(f, Head(xs)))

ListValidate(f, value) ==
    LET Items(base, it, items) ==
            IF base.err # "ok" THEN base
            ELSE IF ~it.ok
            THEN Done("TypeError", base.calls \o <<"__iter__">>)
            ELSE Done(items.err,
                      base.calls \o <<"__iter__">> \o items.calls)
    IN Items(BaseValidate(f, value), Iterate(value),
             ValidateItems(f, Iterate(value).xs))

\* for key, value in values.items(): validate the key, then the value; a
\* field whose _key_field is not assigned yet raises AttributeError.
RECURSIVE MapValidateItems(_, _, _)
MapValidateItems(f, ks, vs) ==
    IF ks = <<>> THEN Done("ok", <<>>)
    ELSE IF f.key_field = NoField
    THEN Done("AttributeError", <<"_key_field">>)
    ELSE LET Then(rest) ==
                 Done(rest.err,
                      <<"_key_field.validate", "_value_field.validate">>
                          \o rest.calls)
             Value(e) ==
                 IF e # "ok"
                 THEN Done(e, <<"_key_field.validate",
                                "_value_field.validate">>)
                 ELSE Then(MapValidateItems(f, Tail(ks), Tail(vs)))
             Key(e) ==
                 IF e # "ok" THEN Done(e, <<"_key_field.validate">>)
                 ELSE Value(BaseValidate(f.value_field, Head(vs)).err)
         IN Key(BaseValidate(f.key_field, Head(ks)).err)

\* MapField.validate
MapFieldValidate(f, values) ==
    LET Items(base, items) ==
            IF base.err # "ok" \/ values = None THEN base
            ELSE Done(items.err, base.calls \o items.calls)
    IN Items(BaseValidate(f, values),
             IF values # None /\ values.t = "dict"
             THEN MapValidateItems(f, values.ks, values.vs)
             ELSE Done("ok", <<>>))

\* value.validate() of an embedded value: what it raises.  A value that is
\* not a model has no validate attribute, which raises AttributeError; a
\* model of class Invalid fails its validation, and the validate of a model
\* of class Broken raises AttributeError from inside.
ModelValidate(value) ==
    IF value.t # "model" THEN "AttributeError"
    ELSE CASE value.cls = "Invalid" -> "RequiredFieldError"
           [] value.cls = "Broken" -> "AttributeError"
           [] OTHER -> "ok"

\* EmbeddedField.validate
EmbeddedFieldValidate(f, value) ==
    LET Own(e) == IF e = "AttributeError" THEN "ok" ELSE e
        Nested(base) ==
            IF base.err # "ok" THEN base
            ELSE Done(Own(ModelValidate(value)),
                      base.calls \o <<"value.validate">>)
    IN Nested(BaseValidate(f, value))

validate(f, value) ==
    IF f.kind \in ListKinds THEN ListValidate(f, value)
    ELSE IF f.kind = "MapField" THEN MapFieldValidate(f, value)
    ELSE IF f.kind = "EmbeddedField" THEN EmbeddedFieldValidate(f, value)
    ELSE BaseValidate(f, value)

(***************************************************************************)
(* __init__ with the arguments a: assign the attributes, validate a        *)
(* configured default, and (list fields) clear required afterwards.        *)
(* [err, field, calls].                                                    *)
(***************************************************************************)
\* An __init__ that does not validate the configured default.
InitSkipsDefaultValidation(a) ==
    [err |-> "ok",
     field |-> IF a.kind \in ListKinds
               THEN [Attributes(a) EXCEPT !.required = FALSE]
               ELSE Attributes(a),
     calls |-> <<>>]

\* An __init__ that leaves a list field's required flag as it was given.
InitKeepsRequired(a) ==
    LET f == Attributes(a)
        Validated(v) ==
            IF a.default # NotSet /\ v.err # "ok"
            THEN [err |-> v.err, field |-> NoField,
                  calls |-> <<"validate">> \o v.calls]
            ELSE [err |-> "ok", field |-> f,
                  calls |-> IF a.default # NotSet
                            THEN <<"validate">> \o v.calls ELSE <<>>]
    IN Validated(validate(f, a.default))

__init__(a) ==
    LET f == Attributes(a)
        Validated(v) ==
            IF a.default # NotSet /\ v.err # "ok"
            THEN [err |-> v.err, field |-> NoField,
                  calls |-> <<"validate">> \o v.calls]
            ELSE [err |-> "ok",
                  field |-> IF a.kind \in ListKinds
                            THEN [f EXCEPT !.required = FALSE] ELSE f,
                  calls |-> IF a.default # NotSet
                            THEN <<"validate">> \o v.calls ELSE <<>>]
    IN Validated(validate(f, a.default))

(***************************************************************************)
(* MapField.__init__ with the arguments a (BaseField's keyword arguments,  *)
(* key_field and value_field): BaseField.__init__ runs first and validates *)
(* a configured default while _key_field and _value_field are not assigned *)
(* yet; they are assigned afterwards.  [err, field, calls].                *)
(***************************************************************************)
MapArgs(required, nullable, validators, default, key_field, value_field) ==
    [kind |-> "MapField", required |-> required, nullable |-> nullable,
     validators |-> validators, default |-> default,
     key_field |-> key_field, value_field |-> value_field]

\* The attributes BaseField.__init__ assigns to a MapField.
MapAttributes(a) ==
    [kind |-> a.kind, types |-> TypesOf(a.kind), required |-> a.required,
     nullable |-> a.nullable, validators |-> a.validators,
     default |-> a.default, key_field |-> NoField, value_field |-> NoField]

MapFieldInit(a) ==
    LET f == MapAttributes(a)
        Validated(v) ==
            IF a.default # NotSet /\ v.err # "ok"
            THEN [err |-> v.err, field |-> NoField,
                  calls |-> <<"validate">> \o v.calls]
            ELSE [err |-> "ok",
                  field |-> [f EXCEPT !.key_field = a.key_field,
                                      !.value_field = a.value_field],
                  calls |-> IF a.default # NotSet
                            THEN <<"validate">> \o v.calls ELSE <<>>]
    IN Validated(validate(f, a.default))

(***************************************************************************)
(* __set__ and __get__ on the store `mem` of field f: [err, mem, ret,      *)
(* calls].                                                                 *)
(***************************************************************************)
Outcome(e, mem, ret, calls) ==
    [err |-> e, mem |-> mem, ret |-> ret, calls |-> calls]

\* A __set__ that writes the parsed value before validate has accepted it.
SetStoresBeforeValidate(f, mem, instance, value) ==
    LET c1 == <<"_finish_initialization", "parse_value">>
        Validated(p, v) ==
            IF v.err # "ok"
            THEN Outcome(v.err, [mem EXCEPT ![instance] = p.val], NotSet,
                         c1 \o <<"validate">> \o v.calls)
            ELSE Outcome("ok", [mem EXCEPT ![instance] = p.val], NotSet,
                         c1 \o <<"validate">> \o v.calls \o <<"store">>)
        Parsed(p) ==
            IF p.err # "ok" THEN Outcome(p.err, mem, NotSet, c1)
            ELSE Validated(p, validate(f, p.val))
    IN Parsed(parse_value(f, value))

__set__(f, mem, instance, value) ==
    LET c1 == <<"_finish_initialization", "parse_value">>
        Validated(p, v) ==
            IF v.err # "ok"
            THEN Outcome(v.err, mem, NotSet,
                         c1 \o <<"validate">> \o v.calls)
            ELSE Outcome("ok", [mem EXCEPT ![instance] = p.val], NotSet,
                         c1 \o <<"validate">> \o v.calls \o <<"store">>)
        Parsed(p) ==
            IF p.err # "ok" THEN Outcome(p.err, mem, NotSet, c1)
            ELSE Validated(p, validate(f, p.val))
    IN Parsed(parse_value(f, value))

\* A _check_value that materializes the default on every read.
CheckValueAlways(f, mem, obj) ==
    LET WasSet(s) ==
            Outcome(s.err, s.mem, NotSet,
                    <<"get_default_value", "__set__">> \o s.calls)
    IN WasSet(__set__(f, mem, obj, get_default_value(f)))

_check_value(f, mem, obj) ==
    LET WasSet(s) ==
            Outcome(s.err, s.mem, NotSet,
                    <<"get_default_value", "__set__">> \o s.calls)
    IN IF mem[obj] = Absent
       THEN WasSet(__set__(f, mem, obj, get_default_value(f)))
       ELSE Outcome("ok", mem, NotSet, <<>>)

__get__(f, mem, instance) ==
    LET Checked(c) ==
            Outcome(c.err, c.mem,
                    IF c.err # "ok" THEN NotSet ELSE c.mem[instance],
                    <<"_finish_initialization", "_check_value">> \o c.calls)
    IN Checked(_check_value(f, mem, instance))

(***************************************************************************)
(* Idle values of the three groups of variables.                           *)
(***************************************************************************)
Idle == [op |-> "none"]
NoPath == [path |-> <<>>, base |-> <<>>]
PathPending == [err |-> "pending", module |-> <<>>, type_name |-> <<>>]
NoEmbed == [value |-> None, models |-> <<>>]
EmbedPending ==
    [choice |-> [err |-> "pending", models |-> <<>>, type |-> Plain],
     parsed |-> Ret("pending", None)]

FieldIdle == field = NoField /\ memory = <<>> /\ last = Idle
PathIdle == pathIn = NoPath /\ pathOut = PathPending
EmbedIdle == embedIn = NoEmbed /\ embedOut = EmbedPending

NoOwner == [cls |-> "", module |-> <<>>]
NoCall == [op |-> "none"]
Threads == {1, 2}
IdleThread ==
    [pc |-> "idle", owner |-> NoOwner, seen |-> <<>>, types |-> <<>>,
     evals |-> 0, alone |-> TRUE, err |-> "none"]
NoResolution == [declared |-> <<>>, served |-> {}, calls |-> 0, last |-> NoCall]
LazyIdle ==
    /\ fieldTypes = <<>>
    /\ threads = [t \in Threads |-> IdleThread]
    /\ resolution = NoResolution

(***************************************************************************)
(* Spec: one field is declared, then set, read and validated on a few      *)
(* instances.  `last` records each operation: its name, instance, argument,*)
(* the error it raised ("ok" for none), what it returned and what it       *)
(* called, in order.                                                       *)
(***************************************************************************)
Instances == 1..NumInstances

Op(op, inst, arg, err, ret, calls) ==
    [op |-> op, inst |-> inst, arg |-> arg, err |-> err, ret |-> ret,
     calls |-> calls]

\* The validator lists, defaults and raw values the operations draw from.
ValidatorLists ==
    { <<>>,
      <<Min(1, FALSE)>>,
      <<Length(1, NoBound), Min(1, FALSE)>>,
      <<function_validator, ClassBasedValidator>> }

Defaults ==
    { NotSet, None, IntV(42), StrV(<<"a">>), ListV(<<>>),
      ListV(<<IntV(42)>>) }

RawValues ==
    { None, IntV(0), IntV(42), BoolV(TRUE), StrV(<<"4", "2">>),
      StrV(<<"a">>), ListV(<<>>), ListV(<<IntV(42)>>), ListV(<<None>>),
      ListV(<<DictV(<<"a">>)>>), TupleV(<<IntV(42)>>), DictV(<<"a">>), Obj }

ScalarKinds == {"BaseField", "StringField", "IntField", "BoolField"}
\* ListField(), ListField(int, item_validators=Min(1)), ListField([A, B]).
ListShapes ==
    { [kind |-> "ListField", items_types |-> <<>>, item_validators |-> <<>>,
       inner |-> NoField],
      [kind |-> "ListField", items_types |-> <<PyType("int")>>,
       item_validators |-> <<Min(1, FALSE)>>, inner |-> NoField],
      [kind |-> "ListField", items_types |-> <<TypeA, TypeB>>,
       item_validators |-> <<>>, inner |-> NoField] }

\* The fields a DerivedListField wraps: IntField(), StringField(required=True).
InnerFields ==
    { __init__(Args("IntField", FALSE, FALSE, <<>>, NotSet, NoShape)).field,
      __init__(Args("StringField", TRUE, FALSE, <<>>, NotSet, NoShape)).field }

\* The class-specific arguments of a declaration.
Shapes ==
    [kind : ScalarKinds, items_types : {<<>>}, item_validators : {<<>>},
     inner : {NoField}]
    \cup ListShapes
    \cup {[kind |-> "DerivedListField", items_types |-> i.types,
           item_validators |-> i.validators, inner |-> i] : i \in InnerFields}

Init ==
    /\ field = NoField /\ memory = [i \in Instances |-> Absent]
    /\ last = Idle
    /\ PathIdle /\ EmbedIdle /\ LazyIdle

Declare ==
    /\ last = Idle
    /\ \E sh \in Shapes, required \in BOOLEAN, nullable \in BOOLEAN,
          validators \in ValidatorLists, default \in Defaults :
          \E args \in {Args(sh.kind, required, nullable, validators,
                             default, sh)} :
             \E r \in {__init__(args)} :
                /\ field' = r.field
                /\ last' = Op("__init__", 0, args, r.err, NotSet, r.calls)
    /\ UNCHANGED <<memory, pathVars, embedVars, lazyVars>>

Set(instance, value) ==
    /\ field # NoField
    /\ \E r \in {__set__(field, memory, instance, value)} :
          /\ memory' = r.mem
          /\ last' = Op("__set__", instance, value, r.err, r.ret, r.calls)
    /\ UNCHANGED <<field, pathVars, embedVars, lazyVars>>

Get(instance) ==
    /\ field # NoField
    /\ \E r \in {__get__(field, memory, instance)} :
          /\ memory' = r.mem
          /\ last' = Op("__get__", instance, NotSet, r.err, r.ret, r.calls)
    /\ UNCHANGED <<field, pathVars, embedVars, lazyVars>>

Validate(value) ==
    /\ field # NoField
    /\ \E r \in {validate(field, value)} :
          last' = Op("validate", 0, value, r.err, NotSet, r.calls)
    /\ UNCHANGED <<field, memory, pathVars, embedVars, lazyVars>>

Next ==
    \/ Declare
    \/ \E i \in Instances, v \in RawValues : Set(i, v)
    \/ \E i \in Instances : Get(i)
    \/ \E v \in RawValues : Validate(v)

Spec == Init /\ [][Next]_vars

(***************************************************************************)
(* SpecMap: a MapField is declared, then set and read on a few instances.  *)
(***************************************************************************)
\* MapField(StringField(), IntField()), MapField(IntField(), IntField()),
\* MapField(StringField(), StringField(required=True)).
MapKeyValueFields ==
    { <<__init__(Args("StringField", FALSE, FALSE, <<>>, NotSet,
                      NoShape)).field,
        __init__(Args("IntField", FALSE, FALSE, <<>>, NotSet,
                      NoShape)).field>>,
      <<__init__(Args("IntField", FALSE, FALSE, <<>>, NotSet,
                      NoShape)).field,
        __init__(Args("IntField", FALSE, FALSE, <<>>, NotSet,
                      NoShape)).field>>,
      <<__init__(Args("StringField", FALSE, FALSE, <<>>, NotSet,
                      NoShape)).field,
        __init__(Args("StringField", TRUE, FALSE, <<>>, NotSet,
                      NoShape)).field>> }

MapValidatorLists == { <<>>, <<Length(1, NoBound)>> }

\* {}, {"a": 42}, {"a": "42"}, {"a": None}, {1: True, "a": 42}
MapValues ==
    { MapV(<<>>, <<>>),
      MapV(<<StrV(<<"a">>)>>, <<IntV(42)>>),
      MapV(<<StrV(<<"a">>)>>, <<StrV(<<"4", "2">>)>>),
      MapV(<<StrV(<<"a">>)>>, <<None>>),
      MapV(<<IntV(1), StrV(<<"a">>)>>, <<BoolV(TRUE), IntV(42)>>) }

MapDefaults == {NotSet, None, IntV(42)} \cup MapValues
MapRawValues == {None, IntV(42), ListV(<<>>)} \cup MapValues

DeclareMap ==
    /\ last = Idle
    /\ \E required \in BOOLEAN, nullable \in BOOLEAN,
          validators \in MapValidatorLists, default \in MapDefaults,
          kv \in MapKeyValueFields :
          \E args \in {MapArgs(required, nullable, validators, default,
                                kv[1], kv[2])} :
             \E r \in {MapFieldInit(args)} :
                /\ field' = r.field
                /\ last' = Op("__init__", 0, args, r.err, NotSet, r.calls)
    /\ UNCHANGED <<memory, pathVars, embedVars, lazyVars>>

NextMap ==
    \/ DeclareMap
    \/ \E i \in Instances, v \in MapRawValues : Set(i, v)
    \/ \E i \in Instances : Get(i)

SpecMap == Init /\ [][NextMap]_vars

(***************************************************************************)
(* SpecValidate: an EmbeddedField, or a ListField with item validators, is *)
(* declared without a default, and values are validated against it.        *)
(***************************************************************************)
EmbeddedClasses == <<PyType("Valid"), PyType("Invalid"), PyType("Broken")>>
NestedValidatorLists ==
    { <<>>, <<ClassBasedValidator>>, <<function_validator>>,
      <<BrokenValidator>>, <<BrokenCallable>>,
      <<BrokenCallable, ClassBasedValidator>> }
NestedValues ==
    { None, Instance("Valid", <<>>), Instance("Invalid", <<>>),
      Instance("Broken", <<>>), DictV(<<"a">>),
      ListV(<<>>), ListV(<<IntV(42)>>) }

\* EmbeddedField(model_types, required=, nullable=, validators=)
EmbeddedField(model_types, required, nullable, validators) ==
    [kind |-> "EmbeddedField", types |-> model_types, required |-> required,
     nullable |-> nullable, validators |-> validators, default |-> NotSet,
     items_types |-> <<>>, item_validators |-> <<>>, inner |-> NoField]

DeclareNested ==
    /\ last = Idle
    /\ \E required \in BOOLEAN, nullable \in BOOLEAN,
          validators \in NestedValidatorLists :
          \/ /\ field' = EmbeddedField(EmbeddedClasses, required, nullable,
                                       validators)
             /\ last' = Op("__init__", 0, field', "ok", NotSet, <<>>)
          \/ \E args \in {Args("ListField", required, nullable, <<>>, NotSet,
                                 [items_types |-> <<>>,
                                  item_validators |-> validators,
                                  inner |-> NoField])} :
                \E r \in {__init__(args)} :
                   /\ field' = r.field
                   /\ last' = Op("__init__", 0, args, r.err, NotSet, r.calls)
    /\ UNCHANGED <<memory, pathVars, embedVars, lazyVars>>

NextValidate ==
    \/ DeclareNested
    \/ \E v \in NestedValues : Validate(v)

SpecValidate == Init /\ [][NextValidate]_vars

(***************************************************************************)
(* SpecParse: a field is declared and parse_value is called on it.         *)
(***************************************************************************)
\* The raw values, and (), ({"a": ...},), "".
ParseValues ==
    RawValues
    \cup {TupleV(<<>>), TupleV(<<DictV(<<"a">>)>>), StrV(<<>>)}

Parse(value) ==
    /\ field # NoField
    /\ \E r \in {parse_value(field, value)} :
          last' = Op("parse_value", 0, value, r.err, r.val, <<>>)
    /\ UNCHANGED <<field, memory, pathVars, embedVars, lazyVars>>

NextParse ==
    \/ Declare
    \/ \E v \in ParseValues : Parse(v)

SpecParse == Init /\ [][NextParse]_vars

(***************************************************************************)
(* SpecRoundTrip: a scalar field with no str_format is declared, a value   *)
(* is serialized with to_struct and the result parsed back.                *)
(***************************************************************************)
RoundTripKinds ==
    {"StringField", "IntField", "FloatField", "BoolField", "TimeField",
     "DateField", "DateTimeField"}

Dates == {DateV(1999, 12, 31), DateV(2024, 1, 1)}
Times == {Midnight, TimeV(23, 59, 59)}
RoundTripValues ==
    {IntV(0), IntV(42), BoolV(TRUE), BoolV(FALSE), FloatV(15), StrV(<<>>),
     StrV(<<"a">>), StrV(<<"4", "2">>)}
    \cup Dates \cup Times \cup {DateTimeV(d, t) : d \in Dates, t \in Times}

DeclareScalar ==
    /\ last = Idle
    /\ \E kind \in RoundTripKinds, required \in BOOLEAN :
          \E args \in {Args(kind, required, FALSE, <<>>, NotSet, NoShape)} :
             \E r \in {__init__(args)} :
                /\ field' = r.field
                /\ last' = Op("__init__", 0, args, r.err, NotSet, r.calls)
    /\ UNCHANGED <<memory, pathVars, embedVars, lazyVars>>

ToStruct(value) ==
    /\ field # NoField /\ last.op # "to_struct"
    /\ \E r \in {to_struct(field, value)} :
          last' = Op("to_struct", 0, value, r.err, r.val, <<>>)
    /\ UNCHANGED <<field, memory, pathVars, embedVars, lazyVars>>

ParseBack ==
    /\ field # NoField /\ last.op = "to_struct" /\ last.err = "ok"
    /\ \E r \in {parse_value(field, last.ret)} :
          last' = Op("parse_value", 0, last.ret, r.err, r.val, <<>>)
    /\ UNCHANGED <<field, memory, pathVars, embedVars, lazyVars>>

NextRoundTrip ==
    \/ DeclareScalar
    \/ \E v \in RoundTripValues : ToStruct(v)
    \/ ParseBack

SpecRoundTrip == Init /\ [][NextRoundTrip]_vars

(***************************************************************************)
(* SpecPath: a lazy type path is evaluated against a declaring module.     *)
(***************************************************************************)
InitPath ==
    /\ FieldIdle /\ EmbedIdle /\ LazyIdle
    /\ pathIn \in [path : Paths, base : BaseModules]
    /\ pathOut = PathPending

EvaluatePath ==
    /\ pathOut = PathPending
    /\ pathOut' = _evaluate_path(pathIn.path, pathIn.base)
    /\ UNCHANGED <<pathIn, fieldVars, embedVars, lazyVars>>

NextPath == EvaluatePath

SpecPath == InitPath /\ [][NextPath]_vars

(***************************************************************************)
(* SpecEmbed: EmbeddedField.parse_value resolves a payload against the     *)
(* candidate models of the field.                                          *)
(***************************************************************************)
CandidateLists == SeqsUpTo(ModelTypes, MaxModels) \ {<<>>}
KeyOrder == <<"a", "b", "c", "see">>
PayloadDicts ==
    {DictV(SelectSeq(KeyOrder, LAMBDA k : k \in S)) : S \in SUBSET PayloadKeys}
Payloads == PayloadDicts \cup {None, Instance("TypeA", <<"a">>)}

InitEmbed ==
    /\ FieldIdle /\ PathIdle /\ LazyIdle
    /\ embedIn \in [value : Payloads, models : CandidateLists]
    /\ embedOut = EmbedPending

ParseEmbedded ==
    /\ embedOut = EmbedPending
    /\ embedOut' =
          [choice |-> IF embedIn.value.t = "dict"
                      THEN _get_embed_type(Range(embedIn.value.ks),
                                           embedIn.models)
                      ELSE EmbedPending.choice,
           parsed |-> EmbeddedFieldParse(embedIn.models, embedIn.value)]
    /\ UNCHANGED <<embedIn, fieldVars, pathVars, lazyVars>>

NextEmbed == ParseEmbedded

SpecEmbed == InitEmbed /\ [][NextEmbed]_vars

(***************************************************************************)
(* SpecLazy: a field whose tuple of types holds lazy types is read and set *)
(* by two threads, through instances of a class and of a subclass declared *)
(* in another module.  Every __get__ and __set__ starts with               *)
(* _finish_initialization(type(instance)); a thread runs it one loop       *)
(* iteration at a time, and the last step binds the attribute to the new   *)
(* tuple.  `resolution` keeps the tuple as declared and the last call      *)
(* completed; a call is `alone` when no other thread ran during it.        *)
(***************************************************************************)
Owners ==
    {[cls |-> "Base", module |-> <<"p">>],
     [cls |-> "Child", module |-> <<"p", Dot, "q">>]}
LazyPaths ==
    {<<"T">>, <<Dot, "T">>, <<"p", Dot, "T">>, <<Dot, Dot, Dot, "T">>,
     <<"x", Dot, "T">>}
DeclaredTypes ==
    {LazyType(path) : path \in LazyPaths} \cup {Type(<<"p">>, <<"T">>)}
TypeTuples == SeqsUpTo(DeclaredTypes, MaxTypes) \ {<<>>}

\* One step of _finish_initialization in thread `th`, the attribute being
\* bound to `bound`: the next iteration of the loop over the tuple the loop
\* started on, or, after the loop, the assignment of tuple(types).
FinishInPlace(bound, th) ==
    LET i == Len(th.types) + 1
        Put(r) ==
            IF r.err # "ok"
            THEN [types |-> bound,
                  thread |-> [th EXCEPT !.pc = "idle", !.err = r.err]]
            ELSE [types |-> [bound EXCEPT ![i] = r.val],
                  thread |-> [th EXCEPT !.types = Append(@, r.val),
                                        !.evals = @ + 1]]
    IN IF i > Len(th.seen)
       THEN [types |-> bound,
             thread |-> [th EXCEPT !.pc = "idle", !.err = "ok"]]
       ELSE IF th.seen[i].lazy
       THEN Put(evaluate(th.seen[i], th.owner))
       ELSE [types |-> bound,
             thread |-> [th EXCEPT !.types = Append(@, th.seen[i])]]

FinishStep(bound, th) ==
    LET i == Len(th.types) + 1
        Keep(r) ==
            IF r.err # "ok"
            THEN [types |-> bound,
                  thread |-> [th EXCEPT !.pc = "idle", !.err = r.err]]
            ELSE [types |-> bound,
                  thread |-> [th EXCEPT !.types = Append(@, r.val),
                                        !.evals = @ + 1]]
    IN IF i > Len(th.seen)
       THEN [types |-> th.types,
             thread |-> [th EXCEPT !.pc = "idle", !.err = "ok"]]
       ELSE IF th.seen[i].lazy
       THEN Keep(evaluate(th.seen[i], th.owner))
       ELSE [types |-> bound,
             thread |-> [th EXCEPT !.types = Append(@, th.seen[i])]]

InitLazy ==
    /\ FieldIdle /\ PathIdle /\ EmbedIdle
    /\ fieldTypes \in TypeTuples
    /\ threads = [t \in Threads |-> IdleThread]
    /\ resolution = [NoResolution EXCEPT !.declared = fieldTypes]

\* Thread t enters __get__ or __set__ on an instance of `owner`, and
\* _finish_initialization starts its loop over the tuple bound now.
BeginCall(t, owner) ==
    /\ threads[t].pc = "idle"
    /\ resolution.calls < MaxCalls
    /\ threads' =
          [u \in Threads |->
              IF u = t
              THEN [pc |-> "loop", owner |-> owner, seen |-> fieldTypes,
                    types |-> <<>>, evals |-> 0,
                    alone |-> \A v \in Threads \ {t} : threads[v].pc = "idle",
                    err |-> "none"]
              ELSE IF threads[u].pc # "idle"
              THEN [threads[u] EXCEPT !.alone = FALSE]
              ELSE threads[u]]
    /\ resolution' = [resolution EXCEPT !.calls = @ + 1]
    /\ UNCHANGED <<fieldTypes, fieldVars, pathVars, embedVars>>

StepCall(t) ==
    /\ threads[t].pc = "loop"
    /\ \E r \in {FinishStep(fieldTypes, threads[t])} :
          /\ fieldTypes' = r.types
          /\ threads' = [threads EXCEPT ![t] = r.thread]
          /\ resolution' =
                IF r.thread.pc # "idle" THEN resolution
                ELSE [resolution EXCEPT
                        !.served = IF r.thread.err = "ok"
                                   THEN @ \cup {r.thread.owner} ELSE @,
                        !.last = [op |-> "done", thread |-> t,
                                  owner |-> r.thread.owner,
                                  first |-> r.thread.owner \notin resolution.served,
                                  before |-> r.thread.seen,
                                  after |-> r.types,
                                  evals |-> r.thread.evals,
                                  alone |-> r.thread.alone,
                                  err |-> r.thread.err]]
    /\ UNCHANGED <<fieldVars, pathVars, embedVars>>

NextLazy ==
    \/ \E t \in Threads, owner \in Owners : BeginCall(t, owner)
    \/ \E t \in Threads : StepCall(t)

SpecLazy == InitLazy /\ [][NextLazy]_vars

(***************************************************************************)
(* Properties.                                                             *)
(***************************************************************************)
Count(s, x) == Cardinality({i \in 1..Len(s) : s[i] = x})
Has(s, x) == \E i \in 1..Len(s) : s[i] = x
ValidatorCalls(s) == {j \in 1..3 : Has(s, VName(j))}
GetCalls == <<"_finish_initialization", "_check_value">>

\* C1: set(instance, raw) runs parse_value(raw), then validate(parsed), and
\* only then writes parsed into the store under the instance; when
\* parse_value or validate raises, the store is exactly as it was before the
\* call and that error is the one the caller sees.
C1_SetParsesValidatesStores ==
    [][last'.op = "__set__" =>
        LET i == last'.inst
            calls == last'.calls
            p == parse_value(field, last'.arg)
            v == validate(field, p.val)
        IN /\ SubSeq(calls, 1, 2) = <<"_finish_initialization", "parse_value">>
           /\ p.err # "ok" =>
                 /\ last'.err = p.err
                 /\ ~Has(calls, "validate")
           /\ p.err = "ok" => calls[3] = "validate"
           /\ p.err = "ok" /\ v.err # "ok" => last'.err = v.err
           /\ last'.err # "ok" =>
                 /\ memory' = memory
                 /\ ~Has(calls, "store")
           /\ last'.err = "ok" =>
                 /\ p.err = "ok" /\ v.err = "ok"
                 /\ memory' = [memory EXCEPT ![i] = p.val]
                 /\ Last(calls) = "store" /\ Count(calls, "store") = 1
    ]_vars

\* C1 witness: a set whose validate raised on an instance that already held
\* a value, which is still there.
C1_Witness ==
    /\ last.op = "__set__" /\ last.err # "ok"
    /\ Has(last.calls, "validate")
    /\ memory[last.inst] # Absent

\* C2 as stated, for the fields that have accepted types: every get ends
\* with a stored value, which it returns; the first get on an instance with
\* no stored value stores the default, and a
\* get on an instance with a stored value computes nothing.
C2_Original ==
    [][last'.op = "__get__" /\ field.types # NoTypes =>
        LET i == last'.inst
        IN /\ last'.err = "ok"
           /\ memory'[i] # Absent /\ last'.ret = memory'[i]
           /\ memory[i] = Absent => PyEq(memory'[i], get_default_value(field))
           /\ memory[i] # Absent =>
                 /\ memory' = memory
                 /\ last'.calls = GetCalls
    ]_vars

\* C2 (amended): a get on an instance with a stored value returns it and
\* calls neither get_default_value nor parse_value nor validate; a get on an
\* instance with no stored value runs set(instance, get_default_value()):
\* when that succeeds the default is stored and returned, when it raises the
\* get raises, nothing is stored and the next get computes the default
\* again; a stored value changes only by a successful set on its instance.
C2_GetIdempotentOnceStored ==
    [][/\ last'.op = "__get__" =>
            LET i == last'.inst
            IN /\ memory[i] # Absent =>
                     /\ memory' = memory
                     /\ last'.err = "ok" /\ last'.ret = memory[i]
                     /\ last'.calls = GetCalls
               /\ memory[i] = Absent =>
                     /\ Count(last'.calls, "get_default_value") = 1
                     /\ Count(last'.calls, "parse_value") = 1
                     /\ last'.err = "ok" =>
                           /\ memory'[i] # Absent
                           /\ last'.ret = memory'[i]
                           /\ PyEq(memory'[i], get_default_value(field))
                           /\ \A j \in Instances \ {i} : memory'[j] = memory[j]
                     /\ last'.err # "ok" => memory' = memory
       /\ \A i \in Instances :
            memory[i] # Absent /\ memory'[i] # memory[i] =>
                last'.op = "__set__" /\ last'.inst = i /\ last'.err = "ok"
    ]_vars

\* C2 witness: a get that found the materialized default stored and returned
\* it without computing anything.
C2_Witness ==
    /\ last.op = "__get__" /\ last.err = "ok"
    /\ last.calls = GetCalls
    /\ has_default(field) /\ last.ret = field.default

\* The value a read of a never-set field is said to return.
ExpectedDefault(f) ==
    IF has_default(f) THEN f.default
    ELSE IF f.kind \in ListKinds THEN ListV(<<>>) ELSE None

RaisedBy(check) == last.err # "ok" /\ Last(last.calls) = check

\* C4 as stated, for the fields that have accepted types: setting a required
\* field to null raises RequiredFieldError; setting a nullable field to null
\* never raises from the type-membership or required-ness checks and invokes
\* no custom validator, whatever the field's other flags.
C4_Original ==
    last.op = "__set__" /\ last.arg = None /\ field.types # NoTypes =>
        /\ field.required => last.err = "RequiredFieldError"
        /\ field.nullable =>
              /\ ~RaisedBy("_validate_against_types")
              /\ ~RaisedBy("_check_against_required")
              /\ ValidatorCalls(last.calls) = {}

\* C4 (amended): setting a required field that has accepted types to null
\* raises RequiredFieldError, also when the field is nullable; setting a
\* nullable field that is not required to null never raises from the
\* type-membership or required-ness checks, and on a field with accepted
\* types other than a list field it succeeds and stores null; validate
\* invokes no custom validator on a null value of a nullable field, so that
\* no set of null on a nullable field invokes one, except on the list
\* fields, whose parse_value does not pass null on to validate.
C4_NullOnRequiredAndNullable ==
    /\ last.op = "__set__" /\ last.arg = None =>
          /\ field.required /\ field.types # NoTypes =>
                last.err = "RequiredFieldError"
          /\ field.nullable /\ ~field.required =>
                /\ ~RaisedBy("_validate_against_types")
                /\ ~RaisedBy("_check_against_required")
          /\ field.nullable /\ field.kind \notin ListKinds =>
                ValidatorCalls(last.calls) = {}
          /\ field.nullable /\ ~field.required /\ field.types # NoTypes
                /\ field.kind \notin ListKinds =>
                last.err = "ok" /\ memory[last.inst] = None
    /\ last.op = "validate" /\ last.arg = None /\ field.nullable =>
          ValidatorCalls(last.calls) = {}

\* C4 witness: null was set on a nullable field that has validators; none
\* ran and null is stored.
C4_Witness ==
    /\ last.op = "__set__" /\ last.arg = None /\ last.err = "ok"
    /\ field.nullable /\ field.validators # <<>>
    /\ memory[last.inst] = None

\* The value the last operation handed to validate, and the checks and
\* validators validate ran on it.
ValidatedValue(l) ==
    IF l.op = "validate" THEN l.arg ELSE parse_value(field, l.arg).val
ChecksOf(l) ==
    IF l.op = "validate" THEN l.calls
    ELSE LET c == SubSeq(l.calls, 4, Len(l.calls))
         IN IF c # <<>> /\ Last(c) = "store" THEN Front(c) ELSE c
BaseChecks ==
    <<"_check_types", "_validate_against_types", "_check_against_required">>

\* C5: validate(value) checks in a fixed order and the first failing check
\* decides the error: a missing accepted-type set raises first, then a
\* non-null value outside the accepted types raises BadTypeError, then null
\* on a required field raises RequiredFieldError, then the validators run in
\* declaration order, and once a validator raises no later one is invoked.
C5_ValidateOrder ==
    (last.op = "validate"
        \/ (last.op = "__set__" /\ Has(last.calls, "validate")))
    =>
    LET f == field
        v == ValidatedValue(last)
        checks == ChecksOf(last)
        a == f.types = NoTypes
        b == v # None /\ ~isinstance(v, f.types)
        c == v = None /\ f.required
        n == Len(f.validators)
        k == Cardinality(ValidatorCalls(checks))
        raised(j) == CallValidator(f.validators[j], v) # "ok"
    IN /\ a => last.err = "ValueError" /\ checks = SubSeq(BaseChecks, 1, 1)
       /\ ~a /\ b =>
             last.err = "BadTypeError" /\ checks = SubSeq(BaseChecks, 1, 2)
       /\ ~a /\ ~b /\ c =>
             last.err = "RequiredFieldError" /\ checks = BaseChecks
       /\ ~a /\ ~b /\ ~c =>
             /\ SubSeq(checks, 1, 3) = BaseChecks
             /\ k <= n
             /\ \A j \in 1..k : checks[3 + j] = VName(j)
             /\ \A j \in 1..(k - 1) : ~raised(j)
             /\ k >= 1 /\ raised(k) =>
                   /\ last.err = CallValidator(f.validators[k], v)
                   /\ Len(checks) = 3 + k
             /\ k < n => IF k = 0 THEN v = None /\ f.nullable ELSE raised(k)
             /\ (k = 0 \/ ~raised(k)) /\ f.kind \notin ListKinds =>
                   last.err = "ok"

\* C5 witness: the first validator accepted the value, the second raised and
\* decided the error.
C5_Witness ==
    /\ last.op = "validate" /\ last.err # "ok"
    /\ Last(last.calls) = VName(2)
    /\ Len(field.validators) = 2

\* C6 as stated: a field validates its configured default exactly once, at
\* declaration, and never again in a later get; with no default given,
\* declaration validates nothing.
C6_Original ==
    /\ last.op = "__init__" =>
          /\ last.arg.default = NotSet => last.calls = <<>>
          /\ last.arg.default # NotSet => Count(last.calls, "validate") = 1
    /\ last.op = "__get__" /\ has_default(field) =>
          ~Has(last.calls, "validate")

\* C6 (amended): a field validates its configured default once at
\* declaration, and again in every get that materializes the default for an
\* instance with no stored value (once in such a get, unless parse_value
\* rejects the default first), but never in a get of an instance that has a
\* stored value; with no default given, declaration validates nothing.
C6_DefaultValidatedAtDeclarationAndFirstGet ==
    [][/\ last'.op = "__init__" =>
            /\ last'.arg.default = NotSet => last'.calls = <<>>
            /\ last'.arg.default # NotSet =>
                  /\ Count(last'.calls, "validate") = 1
                  /\ Head(last'.calls) = "validate"
       /\ last'.op = "__get__" =>
            LET i == last'.inst
                d == get_default_value(field)
            IN /\ memory[i] # Absent => ~Has(last'.calls, "validate")
               /\ memory[i] = Absent =>
                     Count(last'.calls, "validate") =
                        IF parse_value(field, d).err = "ok" THEN 1 ELSE 0
    ]_vars

\* C6 witness: a get materialized a configured default and validated it
\* again.
C6_Witness ==
    /\ last.op = "__get__" /\ last.err = "ok"
    /\ has_default(field)
    /\ Has(last.calls, "validate")

\* C9 as stated: in IntField every non-null input that int() cannot convert
\* makes set raise BadTypeError, the string "42" is stored as the integer
\* 42, and null reaches validate uncoerced.
C9_Claim ==
    last.op = "__set__" /\ field.kind = "IntField" =>
        /\ last.arg # None /\ PyInt(last.arg).err # "ok" =>
              last.err = "BadTypeError"
        /\ last.arg = StrV(<<"4", "2">>) /\ last.err = "ok" =>
              memory[last.inst] = IntV(42)
        /\ last.arg = None => Has(last.calls, "validate")

\* C10 as stated: a list field is never required after its declaration,
\* whatever it was declared with, so no set on it raises RequiredFieldError.
C10_Original ==
    field.kind \in ListKinds =>
        /\ ~field.required
        /\ last.op = "__set__" => last.err # "RequiredFieldError"

\* C10 (amended): a list field is never required after its declaration,
\* whatever it was declared with, and stays so through every get and set, so
\* no operation on it raises RequiredFieldError from the list field's own
\* required-ness check; a RequiredFieldError can still leave a set on a
\* DerivedListField, raised on a null item by the validate of a wrapped
\* field that is required.
C10_ListFieldsNeverRequired ==
    field.kind \in ListKinds =>
        /\ ~field.required
        /\ ~RaisedBy("_check_against_required")
        /\ field.kind = "DerivedListField" /\ last.op # "__init__"
              /\ last.err = "RequiredFieldError" =>
              /\ Last(last.calls) = "validate_single_value"
              /\ field.inner.required

\* C10 witness: a list field declared with required=True was constructed
\* and is not required.
C10_Witness ==
    /\ last.op = "__init__" /\ last.err = "ok"
    /\ last.arg.kind \in ListKinds /\ last.arg.required
    /\ ~field.required

\* A path the claim speaks of: leading dots, then non-empty segments.
WellFormedPath(p) ==
    /\ lstrip(p) # <<>>
    /\ \A i \in 1..Len(split(lstrip(p))) : split(lstrip(p))[i] # <<>>

\* C7 as stated: a path without a leading dot uses its own segments as an
\* absolute namespace; a path with k >= 1 leading dots resolves to the
\* declaring namespace with its last k-1 segments stripped, followed by the
\* path's remaining namespace segments, the last segment being the type
\* name; more levels up than the declaring namespace has segments raises.
\* (Where the namespace so described is empty the claim names no module and
\* nothing is asked of the module.)
C7_Claim ==
    pathOut # PathPending /\ WellFormedPath(pathIn.path) =>
        LET p == pathIn.path
            k == Len(p) - Len(lstrip(p))
            segs == split(lstrip(p))
            parents == split(pathIn.base)
            n == Len(parents)
            namespace == IF k = 0 THEN Front(segs)
                         ELSE SubSeq(parents, 1, n - (k - 1)) \o Front(segs)
        IN IF k >= 1 /\ k - 1 > n THEN pathOut.err = "ValueError"
           ELSE /\ pathOut.err = "ok"
                /\ pathOut.type_name = Last(segs)
                /\ namespace # <<>> => pathOut.module = join(namespace)

\* C8: with exactly one candidate that candidate is chosen without any
\* structural check; with more than one, the chosen type is the unique
\* candidate whose field wire-names (the name override if set, else the
\* attribute name) include every key of the payload, and when no candidate
\* or more than one matches AmbiguousTypeError carrying the whole candidate
\* list is raised.
C8_PolymorphicResolution ==
    embedOut # EmbedPending /\ embedIn.value.t = "dict" =>
        LET models == embedIn.models
            keys == Range(embedIn.value.ks)
            wire(m) == {IF f[2] # NoName THEN f[2] ELSE f[1] : f \in m.fields}
            matches ==
                {m \in Range(models) : m.registry /\ keys \subseteq wire(m)}
            choice == embedOut.choice
        IN /\ Len(models) = 1 =>
                 /\ choice.err = "ok" /\ choice.type = models[1]
                 /\ embedOut.parsed = PyCall(models[1], embedIn.value.ks)
           /\ Len(models) > 1 /\ Cardinality(matches) = 1 =>
                 /\ choice.err = "ok" /\ choice.type \in matches
                 /\ embedOut.parsed =
                       Ret("ok", Instance(choice.type.cls, embedIn.value.ks))
           /\ Len(models) > 1 /\ Cardinality(matches) # 1 =>
                 /\ choice.err = "AmbiguousTypeError"
                 /\ choice.models = models
                 /\ embedOut.parsed.err = "AmbiguousTypeError"

\* C8 witness: of several candidates only TypeB, through its name override
\* "see", has every key of the payload, and it was chosen.
C8_Witness ==
    /\ embedOut # EmbedPending
    /\ embedIn.value = DictV(<<"b", "see">>)
    /\ Len(embedIn.models) = 3
    /\ {TypeA, TypeB, TypeC} = Range(embedIn.models)
    /\ embedOut.choice.err = "ok" /\ embedOut.choice.type = TypeB

(***************************************************************************)
(* MapField (SpecMap).                                                     *)
(***************************************************************************)
EmptyMap == MapV(<<>>, <<>>)

\* a == b for two dicts: the same keys, with equal values under them.
DictEq(a, b) ==
    /\ a.t = "dict" /\ b.t = "dict" /\ Len(a.ks) = Len(b.ks)
    /\ \A i \in 1..Len(a.ks) : \E j \in 1..Len(b.ks) :
          PyEq(a.ks[i], b.ks[j]) /\ PyEq(a.vs[i], b.vs[j])

\* C11: a MapField is never required, whatever it was declared with:
\* setting it to null never raises RequiredFieldError, and neither does
\* reading it unset.
C11_Claim ==
    field # NoField /\ field.kind = "MapField" =>
        /\ last.op = "__set__" /\ last.arg = None =>
              last.err # "RequiredFieldError"
        /\ last.op = "__get__" => last.err # "RequiredFieldError"

\* C12: get_default_value of a declared MapField with no configured default
\* is the empty mapping if and only if the field is required, and null
\* otherwise; with a configured default it is that default.  A read of an
\* unset instance that succeeds returns that value.
C12_MapDefault ==
    field # NoField /\ field.kind = "MapField" =>
        /\ ~has_default(field) =>
              /\ get_default_value(field) = EmptyMap <=> field.required
              /\ ~field.required => get_default_value(field) = None
        /\ has_default(field) => get_default_value(field) = field.default
        /\ last.op = "__get__" /\ last.err = "ok"
              /\ Has(last.calls, "get_default_value")
              /\ ~has_default(field) =>
              last.ret = (IF field.required THEN EmptyMap ELSE None)

\* C12 witness: a required MapField with no configured default was read on
\* an instance never set, and the read returned the empty mapping.
C12_Witness ==
    /\ field # NoField /\ field.kind = "MapField"
    /\ field.required /\ ~has_default(field)
    /\ last.op = "__get__" /\ last.err = "ok"
    /\ Has(last.calls, "get_default_value")
    /\ last.ret = EmptyMap

\* The default is a non-empty mapping whose keys and values the key field
\* and the value field of the declaration a accept.
ValidMapDefault(a) ==
    /\ a.default \notin {NotSet, None} /\ a.default.t = "dict"
    /\ a.default.ks # <<>>
    /\ \A i \in 1..Len(a.default.ks) :
          /\ BaseValidate(a.key_field, a.default.ks[i]).err = "ok"
          /\ BaseValidate(a.value_field, a.default.vs[i]).err = "ok"

\* C20: declaring a MapField with a default that is a non-empty mapping of
\* keys and values valid for the key field and the value field succeeds,
\* and a read of an instance never set then returns a mapping equal to that
\* default.
C20_Claim ==
    /\ last.op = "__init__" /\ last.arg.kind = "MapField"
          /\ ValidMapDefault(last.arg) =>
          last.err = "ok"
    /\ field # NoField /\ field.kind = "MapField"
          /\ last.op = "__get__" /\ Has(last.calls, "get_default_value")
          /\ field.default \notin {NotSet, None}
          /\ field.default.t = "dict" /\ field.default.ks # <<>> =>
          last.err = "ok" /\ DictEq(last.ret, field.default)

(***************************************************************************)
(* Round trip (SpecRoundTrip).                                             *)
(***************************************************************************)
\* C13: for every scalar field kind with no format string and every value
\* v of the field's accepted types, parsing back what to_struct(v) gave
\* succeeds and returns a value equal to v.
C13_Claim ==
    [][last.op = "to_struct" /\ last'.op = "parse_value"
          /\ isinstance(last.arg, field.types) =>
          last'.err = "ok" /\ PyEq(last'.ret, last.arg)]_vars

(***************************************************************************)
(* parse_value of the list fields (SpecParse).                             *)
(***************************************************************************)
\* Null, or a list or tuple with no element.
NullOrEmpty(v) == v = None \/ (v.t \in {"list", "tuple"} /\ v.xs = <<>>)

\* C14 as stated: ListField.parse_value on a null or empty input returns
\* the field's default, and what it returns is an empty collection, for a
\* ListField declared with or without a default.
C14_Original ==
    field # NoField /\ field.kind = "ListField"
        /\ last.op = "parse_value" /\ NullOrEmpty(last.arg) =>
        /\ last.err = "ok"
        /\ last.ret = get_default_value(field)
        /\ IsSequence(last.ret) /\ last.ret.xs = <<>>

\* C14 (amended): ListField.parse_value on a null or empty input (any input
\* that is false in Python) returns the field's default, for a ListField
\* declared with or without a default: the configured default when one
\* other than null was configured, which is empty only if it was configured
\* empty, and otherwise an empty collection.
C14_ParseNullOrEmptyGivesDefault ==
    field # NoField /\ field.kind = "ListField"
        /\ last.op = "parse_value" /\ ~Truthy(last.arg) =>
        /\ last.err = "ok"
        /\ last.ret = get_default_value(field)
        /\ IF has_default(field) /\ field.default # None
           THEN last.ret = field.default
           ELSE last.ret = ModelCollection /\ last.ret.xs = <<>>

\* C14 witness: a ListField declared with the default [42] parsed the empty
\* list, and returned [42].
C14_Witness ==
    /\ field # NoField /\ field.kind = "ListField"
    /\ field.default = ListV(<<IntV(42)>>)
    /\ last.op = "parse_value" /\ last.arg = ListV(<<>>)
    /\ last.err = "ok" /\ last.ret = ListV(<<IntV(42)>>)

\* C15: ListField.parse_value on a non-empty list or tuple casts every
\* element: it raises what the cast of the first failing element raises
\* (BadTypeError in list context for an element that is neither of an item
\* type nor a dict), and otherwise returns the cast elements in order.
C15_Claim ==
    field # NoField /\ field.kind = "ListField"
        /\ last.op = "parse_value" /\ last.arg # None
        /\ last.arg.t \in {"list", "tuple"} /\ last.arg.xs # <<>> =>
        LET cast == CastItems(field, last.arg.xs)
        IN /\ last.err = cast.err
           /\ cast.err = "ok" =>
                 IsSequence(last.ret) /\ last.ret.xs = cast.val

\* C16: DerivedListField.parse_value behaves as ListField.parse_value on the
\* container: a null or empty input gives the field's default and a value
\* that is not a sequence is returned unchanged; an item the wrapped field
\* cannot coerce makes it raise BadTypeError.
C16_Claim ==
    field # NoField /\ field.kind = "DerivedListField"
        /\ last.op = "parse_value" =>
        /\ NullOrEmpty(last.arg) =>
              last.err = "ok" /\ last.ret = get_default_value(field)
        /\ last.arg # None /\ last.arg.t \notin {"list", "tuple"} =>
              last.err = "ok" /\ last.ret = last.arg
        /\ last.arg # None /\ last.arg.t \in {"list", "tuple"}
              /\ InnerParseItems(field.inner, last.arg.xs).err # "ok" =>
              last.err \in {"BadTypeError", "BadTypeError(is_list)"}


(***************************************************************************)
(* Lazy type resolution.                                                   *)
(***************************************************************************)
\* Every lazy type of the tuple can be evaluated against the owner.
Resolves(declared, owner) ==
    \A i \in 1..Len(declared) :
        declared[i].lazy => evaluate(declared[i], owner).err = "ok"

\* The tuple with every lazy type replaced by what it evaluates to against
\* the owner.
ResolvedFor(declared, owner) ==
    [i \in 1..Len(declared) |->
        IF declared[i].lazy THEN evaluate(declared[i], owner).val
        ELSE declared[i]]

FullyResolved(tuple) == \A i \in 1..Len(tuple) : ~tuple[i].lazy

\* C17: a get/set that no other thread ran during, and that raised nothing:
\* if it is the first for its owner, it leaves the field's tuple of types
\* with every lazy type of the declaration replaced by the type resolved
\* against that owner's module (also when another owner was served before);
\* if it is a later one for its owner, it evaluates nothing and leaves the
\* tuple as it found it.
C17_Claim ==
    LET c == resolution.last
    IN c.op = "done" /\ c.alone /\ c.err = "ok" =>
          /\ c.first /\ Resolves(resolution.declared, c.owner) =>
                c.after = ResolvedFor(resolution.declared, c.owner)
          /\ ~c.first => c.evals = 0 /\ c.after = c.before

\* C18: with two threads in _finish_initialization on the same field, the
\* field's tuple of types is at each point either the tuple as declared or
\* a tuple with every lazy type resolved against one owner, never a tuple
\* resolved in part; and once a get/set has completed it is a fully
\* resolved tuple.
C18_NoPartialTuple ==
    /\ \/ fieldTypes = resolution.declared
       \/ /\ FullyResolved(fieldTypes)
          /\ \E o \in Owners :
                /\ Resolves(resolution.declared, o)
                /\ fieldTypes = ResolvedFor(resolution.declared, o)
    /\ resolution.served # {} => FullyResolved(fieldTypes)

\* C18 witness: both threads made their first get/set on the field at the
\* same time, for the same owner, both evaluated the two lazy types, both
\* have bound the attribute, and the tuple is the fully resolved one.
C18_Witness ==
    /\ \A t \in Threads :
          /\ threads[t].pc = "idle" /\ threads[t].err = "ok"
          /\ threads[t].evals = 2 /\ ~threads[t].alone
    /\ threads[1].owner = threads[2].owner
    /\ resolution.calls = 2
    /\ FullyResolved(fieldTypes) /\ fieldTypes # resolution.declared


(***************************************************************************)
(* Errors raised during validation.                                        *)
(***************************************************************************)
\* What the first of the validators to raise raises, each validator being
\* asked through its validate (a function through a call): "ok" when none
\* raises.
FirstRaised(validators, value) ==
    LET raising == {i \in 1..Len(validators) :
                       CallValidatorStrict(validators[i], value) # "ok"}
    IN IF raising = {} THEN "ok"
       ELSE CallValidatorStrict(
                validators[CHOOSE i \in raising : \A j \in raising : i <= j],
                value)

\* C19: a validate call whose type and required-ness checks pass raises
\* what the first raising custom validator raised from inside its validate;
\* when none raised, an EmbeddedField raises what the value's own validate
\* raised, and accepts a value that has no validate, and a ListField raises
\* what the first raising item validator raised on the first item.  No
\* error is dropped or replaced on the way.
C19_Claim ==
    field # NoField /\ last.op = "validate"
        /\ field.kind \in {"EmbeddedField", "ListField"}
        /\ _validate_against_types(field, last.arg) = "ok"
        /\ _check_against_required(field, last.arg) = "ok"
        /\ (field.kind = "ListField" =>
               IsSequence(last.arg) /\ Len(last.arg.xs) <= 1) =>
        LET v == last.arg
            custom == IF v = None /\ field.nullable THEN "ok"
                      ELSE FirstRaised(field.validators, v)
        IN last.err =
              IF custom # "ok" THEN custom
              ELSE IF field.kind = "EmbeddedField"
              THEN (IF v.t = "model" THEN ModelValidate(v) ELSE "ok")
              ELSE IF v.xs = <<>> THEN "ok"
              ELSE FirstRaised(field.item_validators, v.xs[1])


(***************************************************************************)
(* A ListField declared with no item types.                                *)
(***************************************************************************)
\* C21: on a ListField declared with no item types and no validators of
\* its own, setting a non-empty list whose elements are not dicts and pass
\* the item validators succeeds, and stores a list of the same elements in
\* the same order: no item-type check is made anywhere in the pipeline.
C21_Claim ==
    field # NoField /\ field.kind = "ListField"
        /\ field.items_types = <<>> /\ field.validators = <<>>
        /\ last.op = "__set__" /\ last.arg.t = "list" /\ last.arg.xs # <<>>
        /\ (\A i \in 1..Len(last.arg.xs) :
               /\ last.arg.xs[i].t # "dict"
               /\ RunValidators(field.item_validators, last.arg.xs[i],
                                1).err = "ok") =>
        /\ last.err = "ok"
        /\ IsSequence(memory[last.inst])
        /\ memory[last.inst].xs = last.arg.xs

=============================================================================
